---- MODULE Spec2Model ----
(***************************************************************************)
(* The inside agent's two networks, InsideAgentForInitState (lock state -> *)
(* symbol scores) and InsideAgentForAction (symbol -> per-digit scores),   *)
(* in the two variants of the repository:                                  *)
(*   "plain"            src/inside_agent.py (per-digit heads in the        *)
(*                      action network, no normalisation)                  *)
(*   "supervised_wire"  src/src/supervised-wire/inside_agent.py (batch     *)
(*                      normalisation, one wide output layer)              *)
(* One behaviour follows one module instance: its construction, forward    *)
(* calls, train()/eval() switches and the steps of an external optimizer.  *)
(*                                                                         *)
(* Tensors are functions over 0-based index ranges.  Real numbers are      *)
(* fixed-point integers in units of 1/Scale (the value 1.0 is Scale);      *)
(* weights are plain integers, so an affine layer maps fixed-point         *)
(* activations to fixed-point activations.                                 *)
(***************************************************************************)
EXTENDS Integers, Sequences, FiniteSets, TLC

VARIABLES
    agent,               \* the class of the instance
    variant,             \* the file it comes from
    n_digits,            \* self.n_digits
    n_states_per_digit,  \* self.n_states_per_digit
    vocab_size,          \* self.vocab_size
    params,              \* the weight and bias tensors of every layer object
    buffers,             \* the BatchNorm1d buffers (running statistics)
    training,            \* nn.Module.training
    call,                \* the forward call whose result the caller holds
    n_steps              \* parameter updates made from outside so far

vars == <<agent, variant, n_digits, n_states_per_digit, vocab_size,
          params, buffers, training, call, n_steps>>

----------------------------------------------------------------------------
\* Bounds of the model.
MaxBatch == 2
MaxSteps == 1
MaxTracked == 1
Latent == 2
Scale == 4

\* torch.nn.BatchNorm1d defaults: momentum = 1/MomentumDen, and eps, which is
\* below the fixed-point resolution and is kept as the smallest positive
\* quantum so that the denominator never vanishes.
MomentumDen == 10
EpsQuantum == 1

----------------------------------------------------------------------------
\* Index ranges and sums.
Rng(n) == 0..(n - 1)

RECURSIVE SumTo(_, _)
SumTo(f, n) == IF n = 0 THEN 0 ELSE f[n - 1] + SumTo(f, n - 1)

RECURSIVE ISqrtFrom(_, _)
ISqrtFrom(n, r) == IF (r + 1) * (r + 1) > n THEN r ELSE ISqrtFrom(n, r + 1)

\* Floor of the square root.
ISqrt(n) == ISqrtFrom(n, 0)

BatchSize(x) == Cardinality(DOMAIN x)

----------------------------------------------------------------------------
\* Results of a tensor operation: a value, or the error it raises.
Value(v) == [err |-> "", val |-> v]
Raise(msg) == [err |-> msg, val |-> <<>>]

\* A mutant of one_hot: an out-of-range class yields an all-zero block.
one_hot_zero_pad(t, num_classes) ==
    Value([b \in DOMAIN t |-> [d \in DOMAIN t[b] |->
              [c \in Rng(num_classes) |-> IF t[b][d] = c THEN 1 ELSE 0]]])

\* F.one_hot(t, num_classes) of a (batch, digits) integer tensor.
one_hot(t, num_classes) ==
    IF \E b \in DOMAIN t : \E d \in DOMAIN t[b] : t[b][d] < 0
    THEN Raise("Class values must be non-negative.")
    ELSE IF \E b \in DOMAIN t : \E d \in DOMAIN t[b] : t[b][d] >= num_classes
    THEN Raise("Class values must be smaller than num_classes.")
    ELSE Value([b \in DOMAIN t |-> [d \in DOMAIN t[b] |->
              [c \in Rng(num_classes) |-> IF t[b][d] = c THEN 1 ELSE 0]]])

\* The contiguous (row-major) element sequence of a (d0, d1, d2) tensor.
Flat3(t, d0, d1, d2) ==
    [k \in Rng(d0 * d1 * d2) |-> t[k \div (d1 * d2)][(k \div d2) % d1][k % d2]]

\* The contiguous element sequence of a (d0, d1) tensor.
Flat2(t, d0, d1) == [k \in Rng(d0 * d1) |-> t[k \div d1][k % d1]]

\* .reshape(rows, -1): the width is what the element count leaves.
reshape_rows(flat, rows) ==
    LET width == Cardinality(DOMAIN flat) \div rows
    IN  [i \in Rng(rows) |-> [j \in Rng(width) |-> flat[i * width + j]]]

\* A mutant of reshape_rows_mid: the flat row is cut with the digit index
\* running fastest, so that element i * last + s is no longer out[b][i][s].
reshape_rows_mid_strided(flat, rows, mid) ==
    LET last == Cardinality(DOMAIN flat) \div (rows * mid)
    IN  [i \in Rng(rows) |-> [j \in Rng(mid) |->
            [k \in Rng(last) |-> flat[i * mid * last + k * mid + j]]]]

\* .reshape(rows, mid, -1)
reshape_rows_mid(flat, rows, mid) ==
    LET last == Cardinality(DOMAIN flat) \div (rows * mid)
    IN  [i \in Rng(rows) |-> [j \in Rng(mid) |->
            [k \in Rng(last) |-> flat[(i * mid + j) * last + k]]]]

\* .float(): the integer 1 becomes the real 1.0.
float(t) == [b \in DOMAIN t |-> [j \in DOMAIN t[b] |-> Scale * t[b][j]]]

\* nn.Linear.forward: x W^T + b, for every sample of the batch.
Linear(layer, x) ==
    [b \in DOMAIN x |-> [o \in DOMAIN layer.bias |->
        layer.bias[o]
        + SumTo([k \in DOMAIN x[b] |-> layer.weight[o][k] * x[b][k]],
                Cardinality(DOMAIN x[b]))]]

\* F.relu
relu(x) == [b \in DOMAIN x |-> [j \in DOMAIN x[b] |->
                IF x[b][j] > 0 THEN x[b][j] ELSE 0]]

----------------------------------------------------------------------------
\* nn.BatchNorm1d.  A layer has the parameters weight and bias and the buffers
\* running_mean, running_var and num_batches_tracked.

Column(x, j) == [b \in DOMAIN x |-> x[b][j]]

Mean(col) == SumTo(col, BatchSize(col)) \div BatchSize(col)

SqDev(col) ==
    SumTo([b \in DOMAIN col |-> (col[b] - Mean(col)) * (col[b] - Mean(col))],
          BatchSize(col))

\* The variance the batch is normalised with (biased).
BatchVar(col) == SqDev(col) \div BatchSize(col)

\* The variance the running estimate is updated with (unbiased).
UnbiasedVar(col) == SqDev(col) \div (BatchSize(col) - 1)

\* (x - mean) / sqrt(var + eps) * weight + bias
Normalize(x, mean, var, layer) ==
    [b \in DOMAIN x |-> [j \in DOMAIN x[b] |->
        ((Scale * (x[b][j] - mean[j])) \div ISqrt(var[j] + EpsQuantum))
            * layer.weight[j] + layer.bias[j]]]

\* A mutant of verify_batch_size: a single-sample batch is let through.
verify_batch_size_any(x) == TRUE

\* F.batch_norm's check in training mode: more than one value per channel.
verify_batch_size(x) == BatchSize(x) # 1

\* A mutant of track_batch: the batch counter moves in evaluation mode too.
track_batch_always(buf, train) ==
    [buf EXCEPT !.num_batches_tracked = @ + 1]

\* _BatchNorm.forward, first step: in training mode the batch is counted,
\* before the batch size is looked at.
track_batch(buf, train) ==
    IF train THEN [buf EXCEPT !.num_batches_tracked = @ + 1] ELSE buf

\* The running estimate after a batch with statistic `stat`.
Momentum(running, stat) ==
    [j \in DOMAIN running |->
        ((MomentumDen - 1) * running[j] + stat[j]) \div MomentumDen]

\* F.batch_norm in training mode: the batch is normalised with its own mean
\* and (biased) variance, and the running estimates move towards the batch's
\* mean and unbiased variance.
batch_norm_train(layer, buf, x) ==
    LET feats == DOMAIN layer.weight
        mean == [j \in feats |-> Mean(Column(x, j))]
        var == [j \in feats |-> BatchVar(Column(x, j))]
        unb == [j \in feats |->
                   IF BatchSize(x) > 1 THEN UnbiasedVar(Column(x, j)) ELSE 0]
    IN  [err |-> "",
         val |-> Normalize(x, mean, var, layer),
         buf |-> [buf EXCEPT !.running_mean = Momentum(@, mean),
                             !.running_var = Momentum(@, unb)]]

\* A mutant of batch_norm_eval: the running estimates move in evaluation mode.
batch_norm_eval_moving(layer, buf, x) ==
    [err |-> "",
     val |-> Normalize(x, buf.running_mean, buf.running_var, layer),
     buf |-> [buf EXCEPT !.running_mean =
                  Momentum(@, [j \in DOMAIN layer.weight |->
                                  Scale + Mean(Column(x, j))])]]

\* F.batch_norm in evaluation mode: the batch is normalised with the running
\* estimates, which stay as they are.
batch_norm_eval(layer, buf, x) ==
    [err |-> "",
     val |-> Normalize(x, buf.running_mean, buf.running_var, layer),
     buf |-> buf]

\* _BatchNorm.forward: the result, and the layer's buffers after the call.
batch_norm(layer, buf, train, x) ==
    LET counted == track_batch(buf, train)
    IN  IF train
        THEN IF ~verify_batch_size(x)
             THEN [err |-> "Expected more than 1 value per channel when training",
                   val |-> <<>>, buf |-> counted]
             ELSE batch_norm_train(layer, counted, x)
        ELSE batch_norm_eval(layer, counted, x)

----------------------------------------------------------------------------
\* Construction.

\* nn.Linear(in_features, out_features): some initial weights and biases (the
\* initialisation is random; every layer gets a pattern of its own from its
\* place in the module).
NewLinear(in_features, out_features, place) ==
    [weight |-> [o \in Rng(out_features) |-> [k \in Rng(in_features) |->
                    ((place + 2 * o + k) % 3) - 1]],
     bias |-> [o \in Rng(out_features) |->
                    Scale * (((2 * place + o) % 3) - 1)]]

\* nn.BatchNorm1d(num_features): weight 1, bias 0.
NewBatchNorm(num_features) ==
    [weight |-> [j \in Rng(num_features) |-> 1],
     bias |-> [j \in Rng(num_features) |-> 0]]

\* nn.BatchNorm1d(num_features): running mean 0.0, running variance 1.0 (the
\* variance is in units of 1/Scale^2), no batch tracked.
NewBatchNormBuffers(num_features) ==
    [running_mean |-> [j \in Rng(num_features) |-> 0],
     running_var |-> [j \in Rng(num_features) |-> Scale * Scale],
     num_batches_tracked |-> 0]

\* InsideAgentForInitState.__init__, src/inside_agent.py
InitStatePlain(nd, ns, vs) ==
    [fc1 |-> NewLinear(ns * nd, Latent, 0),
     fc2 |-> NewLinear(Latent, Latent, 1),
     fc3 |-> NewLinear(Latent, vs, 2)]

\* InsideAgentForInitState.__init__, supervised-wire
InitStateWire(nd, ns, vs) ==
    [fc1 |-> NewLinear(ns * nd, Latent, 0),
     bn1 |-> NewBatchNorm(Latent),
     fc2 |-> NewLinear(Latent, Latent, 1),
     bn2 |-> NewBatchNorm(Latent),
     fc3 |-> NewLinear(Latent, vs, 2)]

\* InsideAgentForAction.__init__, src/inside_agent.py: fc3 and fc4 are Python
\* lists of one layer per digit.
ActionPlain(nd, ns, vs) ==
    [fc1 |-> NewLinear(vs, Latent, 0),
     fc2 |-> NewLinear(Latent, Latent, 1),
     fc3 |-> [i \in Rng(nd) |-> NewLinear(Latent, Latent \div 2, 2 + i)],
     fc4 |-> [i \in Rng(nd) |-> NewLinear(Latent \div 2, ns, 3 + i)]]

\* InsideAgentForAction.__init__, supervised-wire
ActionWire(nd, ns, vs) ==
    [fc1 |-> NewLinear(vs, Latent, 0),
     bn1 |-> NewBatchNorm(Latent),
     fc2 |-> NewLinear(Latent, Latent, 1),
     bn2 |-> NewBatchNorm(Latent),
     fc3 |-> NewLinear(Latent, ns * nd, 2)]

WireBuffers ==
    [bn1 |-> NewBatchNormBuffers(Latent), bn2 |-> NewBatchNormBuffers(Latent)]

\* What each attribute assigned in __init__ holds.
AttributeKinds ==
    IF variant = "supervised_wire"
    THEN [fc1 |-> "Linear", bn1 |-> "BatchNorm1d", fc2 |-> "Linear",
          bn2 |-> "BatchNorm1d", fc3 |-> "Linear"]
    ELSE IF agent = "InsideAgentForInitState"
    THEN [fc1 |-> "Linear", fc2 |-> "Linear", fc3 |-> "Linear"]
    ELSE [fc1 |-> "Linear", fc2 |-> "Linear", fc3 |-> "list", fc4 |-> "list"]

\* nn.Module.__setattr__ registers an attribute as a submodule when its value
\* is an nn.Module; a Python list is not one.  These are the layers whose
\* tensors self.parameters() yields.
RegisteredModules ==
    {a \in DOMAIN AttributeKinds : AttributeKinds[a] \in {"Linear", "BatchNorm1d"}}

\* The layers whose weights and biases forward reads.
ForwardReads == DOMAIN AttributeKinds

\* The constructor arguments (n_digits, n_states_per_digit, vocab_size) the
\* instances are built with: the smallest module, the two-digit three-state
\* lock, and a three-digit lock.
Configurations == {<<1, 1, 1>>, <<2, 3, 2>>, <<3, 2, 2>>}

NoCall ==
    [status |-> "idle", training |-> FALSE, input |-> <<>>, error |-> "",
     out |-> <<>>, encoded |-> <<>>, hidden |-> <<>>, unwritten |-> {}]

Init ==
    /\ agent \in {"InsideAgentForInitState", "InsideAgentForAction"}
    /\ variant \in {"plain", "supervised_wire"}
    /\ \E c \in Configurations :
         /\ n_digits = c[1]
         /\ n_states_per_digit = c[2]
         /\ vocab_size = c[3]
    /\ params =
          IF agent = "InsideAgentForInitState"
          THEN IF variant = "plain"
               THEN InitStatePlain(n_digits, n_states_per_digit, vocab_size)
               ELSE InitStateWire(n_digits, n_states_per_digit, vocab_size)
          ELSE IF variant = "plain"
               THEN ActionPlain(n_digits, n_states_per_digit, vocab_size)
               ELSE ActionWire(n_digits, n_states_per_digit, vocab_size)
    /\ buffers = IF variant = "supervised_wire" THEN WireBuffers ELSE <<>>
    /\ training = TRUE
    /\ call = NoCall
    /\ n_steps = 0

----------------------------------------------------------------------------
\* forward.  A call ends "returned" with an output or "raised" with an error;
\* either way it leaves the buffers it names.

Returned(out, encoded, hidden, unwritten, buf) ==
    [status |-> "returned", error |-> "", out |-> out, encoded |-> encoded,
     hidden |-> hidden, unwritten |-> unwritten, buffers |-> buf]

Raised(msg, encoded, buf) ==
    [status |-> "raised", error |-> msg, out |-> <<>>, encoded |-> encoded,
     hidden |-> <<>>, unwritten |-> {}, buffers |-> buf]

\* A mutant of encode: the one-hot tensor is flattened digit-fastest.
encode_interleaved(state) ==
    LET batch == BatchSize(state)
        digits == Cardinality(DOMAIN state[0])
        oh == one_hot(state, n_states_per_digit)
    IN  IF oh.err # "" THEN oh
        ELSE Value(reshape_rows(
                 [k \in Rng(batch * digits * n_states_per_digit) |->
                     oh.val[k \div (digits * n_states_per_digit)]
                           [k % digits]
                           [(k \div digits) % n_states_per_digit]],
                 batch))

\* F.one_hot(state, num_classes=self.n_states_per_digit)
\*     .reshape(state.shape[0], -1)
encode(state) ==
    LET batch == BatchSize(state)
        digits == Cardinality(DOMAIN state[0])
        oh == one_hot(state, n_states_per_digit)
    IN  IF oh.err # "" THEN oh
        ELSE Value(reshape_rows(
                 Flat3(oh.val, batch, digits, n_states_per_digit), batch))

\* x = F.relu(self.fc1(x)); x = F.relu(self.fc2(x))
trunk_plain(p, x) == relu(Linear(p.fc2, relu(Linear(p.fc1, x))))

\* x = F.relu(self.bn1(self.fc1(x))); x = F.relu(self.bn2(self.fc2(x)))
trunk_wire(p, buf, train, x) ==
    LET n1 == batch_norm(p.bn1, buf.bn1, train, Linear(p.fc1, x))
    IN  IF n1.err # ""
        THEN [err |-> n1.err, val |-> <<>>, buf |-> [buf EXCEPT !.bn1 = n1.buf]]
        ELSE LET n2 == batch_norm(p.bn2, buf.bn2, train,
                                  Linear(p.fc2, relu(n1.val)))
                 after == [bn1 |-> n1.buf, bn2 |-> n2.buf]
             IN  IF n2.err # ""
                 THEN [err |-> n2.err, val |-> <<>>, buf |-> after]
                 ELSE [err |-> "", val |-> relu(n2.val), buf |-> after]

\* A mutant of last_layer: a rectifier follows the last affine layer.
last_layer_rectified(p, x) == relu(Linear(p.fc3, x))

\* x = self.fc3(x)
last_layer(p, x) == Linear(p.fc3, x)

\* InsideAgentForInitState.forward, src/inside_agent.py
init_state_forward_plain(p, state) ==
    LET enc == encode(state)
    IN  IF enc.err # "" THEN Raised(enc.err, <<>>, <<>>)
        ELSE LET x == trunk_plain(p, float(enc.val))
             IN  Returned(last_layer(p, x), enc.val, x, {}, <<>>)

\* InsideAgentForInitState.forward, supervised-wire
init_state_forward_wire(p, buf, train, state) ==
    LET enc == encode(state)
    IN  IF enc.err # "" THEN Raised(enc.err, <<>>, buf)
        ELSE LET t == trunk_wire(p, buf, train, float(enc.val))
             IN  IF t.err # "" THEN Raised(t.err, enc.val, t.buf)
                 ELSE Returned(last_layer(p, t.val), enc.val, t.val, {}, t.buf)

\* torch.empty(size=(batch, n_digits, n_states_per_digit)): memory as found.
\* Every entry is unwritten; what the memory holds is `found`.
empty(batch, found) ==
    [data |-> [b \in Rng(batch) |-> [i \in Rng(n_digits) |->
                  [s \in Rng(n_states_per_digit) |-> found]]],
     unwritten |-> Rng(batch) \X Rng(n_digits) \X Rng(n_states_per_digit)]

\* t.unsqueeze(0)
unsqueeze0(t) == [z \in {0} |-> t]

\* A mutant of head: every digit is scored by the layers of digit 0.
head_shared(p, x, i) == unsqueeze0(Linear(p.fc4[0], relu(Linear(p.fc3[0], x))))

\* self.fc4[i](F.relu(self.fc3[i](x))).unsqueeze(0)
head(p, x, i) == unsqueeze0(Linear(p.fc4[i], relu(Linear(p.fc3[i], x))))

\* output_lst[:, i, :] = value.  The value's leading dimension of size 1 is
\* dropped before it is copied into the (batch, n_states_per_digit) slice.
assign_digit(buf, i, value) ==
    [data |-> [b \in DOMAIN buf.data |->
                  [buf.data[b] EXCEPT ![i] = value[0][b]]],
     unwritten |-> {e \in buf.unwritten : e[2] # i}]

RECURSIVE fill_digits(_, _, _, _, _)
fill_digits(p, x, buf, i, stop) ==
    IF i >= stop THEN buf
    ELSE fill_digits(p, x, assign_digit(buf, i, head(p, x, i)), i + 1, stop)

\* A mutant of digit_loop: the loop stops one digit early.
digit_loop_short(p, x, buf) == fill_digits(p, x, buf, 0, n_digits - 1)

\* for i in range(self.n_digits): output_lst[:, i, :] = ...
digit_loop(p, x, buf) == fill_digits(p, x, buf, 0, n_digits)

\* InsideAgentForAction.forward, src/inside_agent.py
action_forward_plain(p, x, found) ==
    LET h == trunk_plain(p, x)
        output_lst == digit_loop(p, h, empty(BatchSize(h), found))
    IN  Returned(output_lst.data, <<>>, h, output_lst.unwritten, <<>>)

\* InsideAgentForAction.forward, supervised-wire
action_forward_wire(p, buf, train, x) ==
    LET t == trunk_wire(p, buf, train, x)
    IN  IF t.err # "" THEN Raised(t.err, <<>>, t.buf)
        ELSE LET y == last_layer(p, t.val)
                 batch == BatchSize(t.val)
             IN  Returned(reshape_rows_mid(
                              Flat2(y, batch, Cardinality(DOMAIN y[0])),
                              batch, n_digits),
                          <<>>, t.val, {}, t.buf)

\* The module's forward: the result of a call in a given module state.  `found`
\* is what uninitialised memory holds at the call.
forward(p, buf, train, input, found) ==
    IF agent = "InsideAgentForInitState"
    THEN IF variant = "plain"
         THEN init_state_forward_plain(p, input)
         ELSE init_state_forward_wire(p, buf, train, input)
    ELSE IF variant = "plain"
         THEN action_forward_plain(p, input, found)
         ELSE action_forward_wire(p, buf, train, input)

----------------------------------------------------------------------------
\* The inputs a caller passes.

\* Lock state number r: its digits, most significant first.
StateOf(r) ==
    [d \in Rng(n_digits) |->
        (r \div (n_states_per_digit ^ (n_digits - 1 - d))) % n_states_per_digit]

NumStates == n_states_per_digit ^ n_digits

\* The batch sizes a caller uses: a single sample, and the full batch.
BatchSizes == {1, MaxBatch}

\* Batches of valid lock states, shape (batch, n_digits): the states
\* r, r + 1, ..., in the order of their numbers.
ValidStateBatches ==
    {[b \in Rng(batch) |-> StateOf((r + b) % NumStates)] :
        r \in Rng(NumStates), batch \in BatchSizes}

\* Batches with one digit out of range, below or above.
InvalidStateBatches ==
    UNION {{[b \in Rng(batch) |-> [d \in Rng(n_digits) |->
                IF <<b, d>> = at THEN bad ELSE (b + d) % n_states_per_digit]] :
              at \in Rng(batch) \X Rng(n_digits),
              bad \in {-1, n_states_per_digit}} :
           batch \in BatchSizes}

StateBatches == ValidStateBatches \cup InvalidStateBatches

\* One-hot symbol batches of shape (batch, vocab_size), as floats.
SymbolBatches ==
    UNION {{[b \in Rng(batch) |-> [v \in Rng(vocab_size) |->
                 IF v = sym[b] THEN Scale ELSE 0]] :
              sym \in [Rng(batch) -> Rng(vocab_size)]} :
           batch \in BatchSizes}

Inputs ==
    IF agent = "InsideAgentForInitState" THEN StateBatches ELSE SymbolBatches

\* What torch.empty's memory may hold.
Uninitialised ==
    IF agent = "InsideAgentForAction" /\ variant = "plain"
    THEN {-Scale, Scale} ELSE {0}

----------------------------------------------------------------------------
\* Operations.

\* module(input): one forward call, from the first line to the return or the
\* error.
Forward ==
    /\ call.status = "idle"
    /\ (variant = "supervised_wire" /\ training)
          => buffers.bn1.num_batches_tracked < MaxTracked
    /\ \E input \in Inputs : \E found \in Uninitialised :
          \E r \in {forward(params, buffers, training, input, found)} :
              /\ call' = [status |-> r.status, training |-> training,
                          input |-> input, error |-> r.error, out |-> r.out,
                          encoded |-> r.encoded, hidden |-> r.hidden,
                          unwritten |-> r.unwritten]
              /\ buffers' = r.buffers
    /\ UNCHANGED <<agent, variant, n_digits, n_states_per_digit, vocab_size,
                   params, training, n_steps>>

\* The caller is done with the result of the call.
Return ==
    /\ call.status # "idle"
    /\ call' = NoCall
    /\ UNCHANGED <<agent, variant, n_digits, n_states_per_digit, vocab_size,
                   params, buffers, training, n_steps>>

\* nn.Module.train()
Train ==
    /\ call.status = "idle"
    /\ ~training
    /\ training' = TRUE
    /\ UNCHANGED <<agent, variant, n_digits, n_states_per_digit, vocab_size,
                   params, buffers, call, n_steps>>

\* nn.Module.eval()
Eval ==
    /\ call.status = "idle"
    /\ training
    /\ training' = FALSE
    /\ UNCHANGED <<agent, variant, n_digits, n_states_per_digit, vocab_size,
                   params, buffers, call, n_steps>>

ShiftVector(v, g) == [j \in DOMAIN v |-> v[j] + g]

ShiftLayer(layer, kind, g) ==
    IF kind = "Linear"
    THEN [weight |-> [o \in DOMAIN layer.weight |-> ShiftVector(layer.weight[o], g)],
          bias |-> ShiftVector(layer.bias, g)]
    ELSE [weight |-> ShiftVector(layer.weight, g),
          bias |-> ShiftVector(layer.bias, g)]

\* optimizer.step() of an optimizer built over self.parameters(): every tensor
\* of a registered layer moves (here by g, the same way for all), and nothing
\* else does.
OptimizerStep ==
    /\ call.status = "idle"
    /\ n_steps < MaxSteps
    /\ \E g \in {-1, 1} :
          params' = [a \in DOMAIN params |->
                        IF a \in RegisteredModules
                        THEN ShiftLayer(params[a], AttributeKinds[a], g)
                        ELSE params[a]]
    /\ n_steps' = n_steps + 1
    /\ UNCHANGED <<agent, variant, n_digits, n_states_per_digit, vocab_size,
                   buffers, training, call>>

\* The entries of a tensor after a perturbation: zeroed, or moved by one.
Perturbed(x, how) == IF how = "zero" THEN 0 ELSE x + 1

PerturbLayer(layer, how) ==
    [weight |-> [o \in DOMAIN layer.weight |-> [k \in DOMAIN layer.weight[o] |->
                    Perturbed(layer.weight[o][k], how)]],
     bias |-> [o \in DOMAIN layer.bias |-> Perturbed(layer.bias[o], how)]]

\* The rows of the wide output layer that score digit j.
Block(j) == {o \in Rng(n_digits * n_states_per_digit) :
                o \div n_states_per_digit = j}

PerturbRows(layer, rows, how) ==
    [weight |-> [o \in DOMAIN layer.weight |->
                    IF o \in rows
                    THEN [k \in DOMAIN layer.weight[o] |->
                             Perturbed(layer.weight[o][k], how)]
                    ELSE layer.weight[o]],
     bias |-> [o \in DOMAIN layer.bias |->
                    IF o \in rows THEN Perturbed(layer.bias[o], how)
                    ELSE layer.bias[o]]]

\* The parameters that score digit j are zeroed or perturbed in place from
\* outside: fc3[j] and fc4[j] of the per-digit heads, block j of the wide fc3.
PerturbHead ==
    /\ call.status = "idle"
    /\ agent = "InsideAgentForAction"
    /\ n_steps < MaxSteps
    /\ \E j \in Rng(n_digits) : \E how \in {"zero", "shift"} :
          params' =
             IF variant = "plain"
             THEN [params EXCEPT !.fc3[j] = PerturbLayer(@, how),
                                 !.fc4[j] = PerturbLayer(@, how)]
             ELSE [params EXCEPT !.fc3 = PerturbRows(@, Block(j), how)]
    /\ n_steps' = n_steps + 1
    /\ UNCHANGED <<agent, variant, n_digits, n_states_per_digit, vocab_size,
                   buffers, training, call>>

Next ==
    \/ Forward
    \/ Return
    \/ Train
    \/ Eval
    \/ OptimizerStep
    \/ PerturbHead

Spec == Init /\ [][Next]_vars

----------------------------------------------------------------------------
\* What the properties below speak of.

IsInitState == agent = "InsideAgentForInitState"
IsAction == agent = "InsideAgentForAction"
IsWire == variant = "supervised_wire"
Pending == call.status # "idle"
CallBatch == BatchSize(call.input)

\* A forward call is made in this step.
ForwardStep == call.status = "idle" /\ call'.status # "idle"

\* Every digit of the lock-state batch is in [0, n_states_per_digit).
DigitsInRange(state) ==
    \A b \in DOMAIN state : \A d \in DOMAIN state[b] :
        state[b][d] \in Rng(n_states_per_digit)

\* The degenerate batch of the error taxonomy: one sample, given to a
\* batch-normalised module in training mode.
DegenerateBatch == IsWire /\ call.training /\ CallBatch = 1

Dot(w, x) == SumTo([k \in DOMAIN x |-> w[k] * x[k]], Cardinality(DOMAIN x))

OneHotErrors == {"Class values must be non-negative.",
                 "Class values must be smaller than num_classes."}

\* Slice [:, i, :] of a (batch, n_digits, n_states_per_digit) tensor.
DigitSlice(t, i) == [b \in DOMAIN t |-> t[b][i]]

----------------------------------------------------------------------------
\* C1.  The encoding step is a per-digit one-hot concatenation: for a batch of
\* valid lock states the encoded row has width n_digits * n_states_per_digit,
\* its entry d * n_states_per_digit + v is 1 exactly when digit d is v and 0
\* otherwise, and against any other lock state the row differs only in the
\* blocks of the digits that differ.
C1_OneHotConcatenation ==
    (IsInitState /\ Pending /\ DigitsInRange(call.input)) =>
        /\ DOMAIN call.encoded = DOMAIN call.input
        /\ \A b \in DOMAIN call.input :
              /\ DOMAIN call.encoded[b] = Rng(n_digits * n_states_per_digit)
              /\ \A d \in Rng(n_digits) : \A v \in Rng(n_states_per_digit) :
                    call.encoded[b][d * n_states_per_digit + v]
                        = IF call.input[b][d] = v THEN 1 ELSE 0
              /\ \A r \in Rng(NumStates) :
                    LET other == encode([z \in {0} |-> StateOf(r)]).val[0]
                    IN  \A d \in Rng(n_digits) :
                            StateOf(r)[d] = call.input[b][d] =>
                                \A v \in Rng(n_states_per_digit) :
                                    other[d * n_states_per_digit + v]
                                      = call.encoded[b][d * n_states_per_digit + v]

\* The lock state [1, 2] of a two-digit three-state lock was encoded, to
\* [0, 1, 0, 0, 0, 1].
C1_Witness ==
    /\ IsInitState /\ Pending
    /\ n_digits = 2 /\ n_states_per_digit = 3
    /\ call.input[0] = [d \in Rng(2) |-> d + 1]
    /\ call.encoded # <<>>
    /\ call.encoded[0] = [k \in Rng(6) |-> IF k \in {1, 5} THEN 1 ELSE 0]

\* C2 as claimed.  For every one-hot symbol batch of shape
\* (batch_size, vocab_size), InsideAgentForAction.forward returns, in both
\* variants, a tensor of shape (batch_size, n_digits, n_states_per_digit) with
\* no entry left unwritten.
C2_ActionAlwaysReturns ==
    (IsAction /\ Pending) =>
        /\ call.status = "returned"
        /\ call.unwritten = {}
        /\ DOMAIN call.out = Rng(CallBatch)
        /\ \A b \in Rng(CallBatch) :
              /\ DOMAIN call.out[b] = Rng(n_digits)
              /\ \A i \in Rng(n_digits) :
                    DOMAIN call.out[b][i] = Rng(n_states_per_digit)

\* C2 as amended.  For every one-hot symbol batch other than a single sample
\* given to the normalised variant in training mode (which raises),
\* InsideAgentForAction.forward returns, in both variants, a tensor of shape
\* (batch_size, n_digits, n_states_per_digit); with per-digit heads no entry
\* of the torch.empty buffer is left unwritten when the digit loop ends, and
\* every entry is the score its digit's head computes.
C2_ActionOutputFilled ==
    (IsAction /\ Pending /\ ~DegenerateBatch) =>
        /\ call.status = "returned"
        /\ call.unwritten = {}
        /\ DOMAIN call.out = Rng(CallBatch)
        /\ \A b \in Rng(CallBatch) :
              /\ DOMAIN call.out[b] = Rng(n_digits)
              /\ \A i \in Rng(n_digits) :
                    /\ DOMAIN call.out[b][i] = Rng(n_states_per_digit)
                    /\ ~IsWire => \A s \in Rng(n_states_per_digit) :
                          call.out[b][i][s] =
                              params.fc4[i].bias[s]
                              + Dot(params.fc4[i].weight[s],
                                    relu(Linear(params.fc3[i], call.hidden))[b])

\* The per-digit heads scored a full batch for a lock of several digits.
C2_Witness ==
    /\ IsAction /\ ~IsWire /\ call.status = "returned"
    /\ n_digits > 1 /\ CallBatch = MaxBatch
    /\ \E b \in Rng(CallBatch) : call.out[b][0] # call.out[b][n_digits - 1]

\* C3 as claimed.  For every lock-state batch of shape (batch_size, n_digits)
\* with digits in range, InsideAgentForInitState.forward returns, in both
\* variants, a tensor of shape (batch_size, vocab_size) whose rows are the
\* last affine layer's output.
C3_InitStateAlwaysReturns ==
    (IsInitState /\ Pending /\ DigitsInRange(call.input)) =>
        /\ call.status = "returned"
        /\ DOMAIN call.out = Rng(CallBatch)
        /\ \A b \in Rng(CallBatch) :
              /\ DOMAIN call.out[b] = Rng(vocab_size)
              /\ \A v \in Rng(vocab_size) :
                    call.out[b][v] = params.fc3.bias[v]
                        + Dot(params.fc3.weight[v], call.hidden[b])

\* C3 as amended.  For every lock-state batch with digits in range, other
\* than a single sample given to the normalised variant in training mode
\* (which raises), InsideAgentForInitState.forward returns, in both variants,
\* a tensor of shape (batch_size, vocab_size) whose rows are the last affine
\* layer's output itself: no nonlinearity follows it.
C3_InitStateOutput ==
    (IsInitState /\ Pending /\ DigitsInRange(call.input) /\ ~DegenerateBatch) =>
        /\ call.status = "returned"
        /\ DOMAIN call.out = Rng(CallBatch)
        /\ \A b \in Rng(CallBatch) :
              /\ DOMAIN call.out[b] = Rng(vocab_size)
              /\ \A v \in Rng(vocab_size) :
                    call.out[b][v] = params.fc3.bias[v]
                        + Dot(params.fc3.weight[v], call.hidden[b])

\* A score vector with a negative score was returned for a full batch.
C3_Witness ==
    /\ IsInitState /\ call.status = "returned"
    /\ CallBatch = MaxBatch /\ vocab_size > 1
    /\ \E b \in Rng(CallBatch) : \E v \in Rng(vocab_size) : call.out[b][v] < 0

\* A layer whose weights and biases are all zero.
ZeroLayer(layer) ==
    /\ \A o \in DOMAIN layer.bias : layer.bias[o] = 0
    /\ \A o \in DOMAIN layer.weight : \A k \in DOMAIN layer.weight[o] :
          layer.weight[o][k] = 0

\* C4.  Per-digit heads are independent: in a step that changes parameters
\* but leaves the trunk and head i (fc3[i], fc4[i]) as they are - such as
\* zeroing or perturbing another head j - the output slice [:, i, :] is the
\* same before and after, for every input.
C4_HeadsIndependent ==
    [][(IsAction /\ ~IsWire /\ params' # params) =>
          \A i \in Rng(n_digits) :
              (/\ params'.fc1 = params.fc1 /\ params'.fc2 = params.fc2
               /\ params'.fc3[i] = params.fc3[i]
               /\ params'.fc4[i] = params.fc4[i]) =>
                  \A x \in SymbolBatches : \A found \in Uninitialised :
                      DigitSlice(action_forward_plain(params', x, found).out, i)
                        = DigitSlice(action_forward_plain(params, x, found).out, i)
      ]_vars

\* Head j was zeroed, and a forward call then returned, for another digit i,
\* the scores the module gave as constructed, and for digit j other scores.
C4_Witness ==
    /\ IsAction /\ ~IsWire /\ call.status = "returned"
    /\ \E j \in Rng(n_digits) : \E i \in Rng(n_digits) \ {j} :
          LET asBuilt == action_forward_plain(
                             ActionPlain(n_digits, n_states_per_digit, vocab_size),
                             call.input, 0).out
          IN  /\ ZeroLayer(params.fc3[j]) /\ ZeroLayer(params.fc4[j])
              /\ ~ZeroLayer(params.fc4[i])
              /\ DigitSlice(call.out, i) = DigitSlice(asBuilt, i)
              /\ DigitSlice(call.out, j) # DigitSlice(asBuilt, j)

C6_Deterministic ==
    [][(ForwardStep /\ (IsWire => ~training)) =>
          \A found \in Uninitialised :
              LET same == forward(params, buffers, training, call'.input, found)
                  again == forward(params', buffers', training', call'.input, found)
              IN  /\ same.status = call'.status /\ same.out = call'.out
                  /\ again.status = call'.status /\ again.out = call'.out
      ]_vars

\* An evaluation-mode call of the normalised variant returned for a full
\* batch, with running means that training-mode calls had moved.
C6_Witness ==
    /\ IsWire /\ call.status = "returned" /\ ~call.training
    /\ CallBatch = MaxBatch
    /\ buffers.bn1.running_mean # WireBuffers.bn1.running_mean

\* C7.  InsideAgentForInitState.forward, given a state with a digit outside
\* [0, n_states_per_digit), ends in an error of the one-hot step and returns
\* no score vector; no encoded row (zero-padded or other) is produced.
C7_OutOfRangeRaises ==
    (IsInitState /\ Pending /\ ~DigitsInRange(call.input)) =>
        /\ call.status = "raised"
        /\ call.error \in OneHotErrors
        /\ call.out = <<>>
        /\ call.encoded = <<>>

\* A call with a digit equal to n_states_per_digit raised in the one-hot step.
C7_Witness ==
    /\ IsInitState /\ call.status = "raised"
    /\ \E b \in DOMAIN call.input : \E d \in DOMAIN call.input[b] :
          call.input[b][d] = n_states_per_digit
    /\ call.error = "Class values must be smaller than num_classes."

\* C8.  In the batch-normalised variant a forward call with batch size 1 in
\* training mode raises an error and returns nothing; no output normalised
\* with the statistics of the single sample comes back.
C8_SingleSampleTrainingRaises ==
    (IsWire /\ Pending /\ call.training /\ CallBatch = 1) =>
        /\ call.status = "raised"
        /\ call.out = <<>>
        /\ (IsAction \/ DigitsInRange(call.input)) =>
              call.error = "Expected more than 1 value per channel when training"

\* A training-mode call with one valid sample raised the batch-size error.
C8_Witness ==
    /\ IsWire /\ call.status = "raised" /\ call.training /\ CallBatch = 1
    /\ call.error = "Expected more than 1 value per channel when training"
    /\ buffers.bn1.num_batches_tracked = 1

\* C9 as claimed.  With per-digit heads, every layer whose weights and biases
\* forward reads (fc1, fc2, each fc3[i] and fc4[i]) is among the modules whose
\* parameters the instance exposes to an optimizer.
C9_HeadsAreParameters ==
    (IsAction /\ ~IsWire) => ForwardReads \subseteq RegisteredModules

\* C10.  With the single wide layer, out[b][i][s] is element
\* i * n_states_per_digit + s of the last affine layer's output for sample b:
\* the bias and the weight row of that index, which lie in block i, applied
\* to the trunk's output, and nothing of another block.
C10_WideLayerBlocks ==
    (IsAction /\ IsWire /\ call.status = "returned") =>
        \A b \in Rng(CallBatch) : \A i \in Rng(n_digits) :
            \A s \in Rng(n_states_per_digit) :
                /\ i * n_states_per_digit + s \in Block(i)
                /\ call.out[b][i][s] =
                      params.fc3.bias[i * n_states_per_digit + s]
                      + Dot(params.fc3.weight[i * n_states_per_digit + s],
                            call.hidden[b])

\* The wide layer scored a full batch for a lock of several digits and
\* several states, with different scores for the first and the last digit.
C10_Witness ==
    /\ IsAction /\ IsWire /\ call.status = "returned"
    /\ n_digits > 1 /\ n_states_per_digit > 1 /\ CallBatch = MaxBatch
    /\ \E b \in Rng(CallBatch) : call.out[b][0] # call.out[b][n_digits - 1]

====
